---- MODULE Spec2Model ----
(***************************************************************************)
(* Counter backend of Protos-Eschaton (src/apps.js): a Google Apps Script  *)
(* that keeps, per slug, three counters (likes, dislikes, infos) in the    *)
(* sheet 'metrics' and serves them through doGet / doPost.                 *)
(*                                                                         *)
(* The sheet is the sequence of its rows, header included, so that a row   *)
(* number of the script (1-based, header = row 1) is an index of `table`.  *)
(* A request is a little process: every call it makes to the Spreadsheet   *)
(* service is one step, and steps of different requests interleave freely  *)
(* (the script takes no lock), the calls of getSheet_ included.  Once the   *)
(* sheet exists and has a row, getSheetByName and getLastRow() === 0 give  *)
(* the same answers for ever (nothing deletes a sheet or a row), so from   *)
(* then on getSheet_ is taken together with the call that follows it.      *)
(* setFontWeight changes the format of the header only, which is no part   *)
(* of the state, and is taken together with the appendRow before it.       *)
(*                                                                         *)
(* src/unnamed/part_000 is an earlier draft of the same script (read and   *)
(* POST-bump only); its getSheet_ names the undeclared identifier          *)
(* `metrics`, so none of its functions can reach the sheet.  The model     *)
(* follows apps.js.                                                        *)
(***************************************************************************)
EXTENDS Integers, Sequences, FiniteSets, TLC

\* ---------------------------------------------------------------- bounds
\* Number of HTTP requests served in one behaviour of Spec (they may overlap).
MaxRequests == 2
\* Number of calls made in one behaviour of SpecSeq, SpecMaint, SpecNoSlug and
\* SpecMalformed (one at a time).
MaxCalls == 4
\* Number of HTTP requests for the slug "home" served in one behaviour of
\* SpecRace and SpecRaceMaint (they may overlap).
MaxRace == 3
\* Number of requests and resetSlug calls on two slugs in one behaviour of
\* SpecAll (they may overlap).
MaxAll == 3

\* ------------------------------------------------------------ universes
Clients == {"c1", "c2"}
Slugs == {"home", "test"}
Undefined == "<undefined>"
ValidFields == {"likes", "dislikes", "infos"}
ParamActions == {Undefined, "get", "bump", "purge"}
ParamSlugs == {Undefined, "home", "test"}
ParamFields == {Undefined, "likes", "dislikes", "infos", "shares"}
\* Names every object literal inherits from Object.prototype.
InheritedNames ==
  {"constructor", "toString", "toLocaleString", "valueOf", "hasOwnProperty",
   "isPrototypeOf", "propertyIsEnumerable", "__proto__", "__defineGetter__",
   "__defineSetter__", "__lookupGetter__", "__lookupSetter__"}
\* The field names of the requests that overlap: two of the three counters,
\* which bump_ treats alike, no field, and a name that is no counter.
RaceFields == {Undefined, "likes", "dislikes", "shares"}
\* The field names bump_ is called with directly.
DirectFields == ParamFields \cup {"constructor"}

\* A value is text (a JavaScript string) or a number: a query parameter is
\* always text, a JSON body and a cell of the sheet can hold either.
IsText(v) == Head(ToString(v)) = "\""
\* String(v)
String(v) == IF IsText(v) THEN v ELSE ToString(v)
\* a === b: never true between text and a number
StrictEq(a, b) == IsText(a) = IsText(b) /\ a = b
\* array.includes(v) for an array of strings
Includes(array, v) == IsText(v) /\ v \in array

\* JavaScript truthiness of text (absent values included) and of numbers.
Truthy(v) == IF IsText(v) THEN v \notin {Undefined, ""} ELSE v # 0
\* a || b
Or(a, b) == IF Truthy(a) THEN a ELSE b

\* ---------------------------------------------------------------- sheet
Header == <<"slug", "likes", "dislikes", "infos">>
Null == 0
\* colMap[field] when the name is inherited: a function or an object, truthy
\* and no column number
Inherited == -1

\* the rows getSheet_ leaves when it runs with nothing interleaved
getSheet_(t) == IF Len(t) = 0 THEN <<Header>> ELSE t

getLastRow(t) == Len(t)

appendRow(t, r) == Append(t, r)

setValue(t, row, col, v) == [t EXCEPT ![row][col] = v]

\* faulty variant: the range is one column short, the infos cell is kept
setValuesNarrow(t, row, vals) ==
  [t EXCEPT ![row] = <<t[row][1], vals[1], vals[2], t[row][4]>>]

\* getRange(row, 2, 1, 3).setValues([[a, b, c]])
setValues(t, row, vals) ==
  [t EXCEPT ![row] = <<t[row][1], vals[1], vals[2], vals[3]>>]

\* faulty variant: the cell's value is dropped
OrZeroDropsValue(v) == 0

\* value || 0 on a cell: a number, or the text of a header cell
OrZero(v) == IF Truthy(v) THEN v ELSE 0

\* faulty variant: the scan keeps the last row that matches
findRowLastMatch(t, slug) ==
  LET data == getSheet_(t)
      hits == {i \in 2..Len(data) : StrictEq(String(data[i][1]), slug)}
  IN IF hits = {} THEN Null
     ELSE CHOOSE i \in hits : \A j \in hits : i >= j

\* faulty variant: the scan starts one row too late
findRowSkipsFirst(t, slug) ==
  LET data == getSheet_(t)
      hits == {i \in 3..Len(data) : StrictEq(String(data[i][1]), slug)}
  IN IF hits = {} THEN Null
     ELSE CHOOSE i \in hits : \A j \in hits : i <= j

findRowBySlug_(t, slug) ==
  LET data == getSheet_(t)
      hits == {i \in 2..Len(data) : StrictEq(String(data[i][1]), slug)}
  IN IF hits = {} THEN Null
     ELSE CHOOSE i \in hits : \A j \in hits : i <= j

\* faulty variant: the columns of likes and dislikes are exchanged
colMapSwapped(field) ==
  CASE ~IsText(field) -> Null
    [] field = "likes" -> 3
    [] field = "dislikes" -> 2
    [] field = "infos" -> 4
    [] field \in InheritedNames -> Inherited
    [] OTHER -> Null

colMap(field) ==
  CASE ~IsText(field) -> Null
    [] field = "likes" -> 2
    [] field = "dislikes" -> 3
    [] field = "infos" -> 4
    [] field \in InheritedNames -> Inherited
    [] OTHER -> Null

\* -------------------------------------------------------------- payloads
Counts(s, l, d, i) ==
  [kind |-> "counts", slug |-> s, likes |-> l, dislikes |-> d, infos |-> i,
   error |-> "", mime |-> ""]
ErrorObj(msg) ==
  [kind |-> "error", slug |-> Undefined, likes |-> 0, dislikes |-> 0, infos |-> 0,
   error |-> msg, mime |-> ""]
NoPayload ==
  [kind |-> "none", slug |-> Undefined, likes |-> 0, dislikes |-> 0, infos |-> 0,
   error |-> "", mime |-> ""]
\* what the caller of a function that threw gets: the Error, not a value
Thrown(msg) ==
  [kind |-> "thrown", slug |-> Undefined, likes |-> 0, dislikes |-> 0, infos |-> 0,
   error |-> msg, mime |-> ""]

\* the object readCounts_ builds from the four cells of a row
RowCounts(values) ==
  Counts(values[1], OrZero(values[2]), OrZero(values[3]), OrZero(values[4]))

\* readCounts_ run with nothing interleaved
readCounts_(t, slug) ==
  LET row == findRowBySlug_(t, slug)
  IN IF row = Null THEN Counts(slug, 0, 0, 0)
     ELSE RowCounts(getSheet_(t)[row])

\* ------------------------------------------------------- request events
\* e of doGet / doPost: e.parameter (absent when hasParameter is FALSE) and
\* e.postData.contents, abstracted to what JSON.parse makes of it.
Bodies ==
  [kind : {"none", "empty", "null", "malformed"}, slug : {Undefined}, field : {Undefined}]
    \cup [kind : {"object"}, slug : ParamSlugs, field : ParamFields]
NoBody == [kind |-> "none", slug |-> Undefined, field |-> Undefined]
Parameters ==
  [hasParameter : {TRUE}, action : ParamActions, slug : ParamSlugs, field : ParamFields]
    \cup [hasParameter : {FALSE}, action : {Undefined}, slug : {Undefined},
          field : {Undefined}]
\* the events that name no slug outside `slugs`
GetEvents(slugs) ==
  {[parameter |-> p, body |-> NoBody] : p \in {q \in Parameters : q.slug \in slugs}}
PostEvents(slugs) ==
  {[parameter |-> p, body |-> b] :
     p \in {q \in Parameters : q.action = Undefined /\ q.slug \in slugs},
     b \in {d \in Bodies : d.slug \in slugs}}

\* the events whose field, in the query string and in the body, is in `fields`
WithFields(events, fields) ==
  {e \in events : e.parameter.field \in fields /\ e.body.field \in fields}

createJsonResponse(data) == [data EXCEPT !.mime = "application/json"]

\* What a handler does after decoding its event: answer at once (op "respond")
\* or call readCounts_ / bump_ with the decoded slug and field.
Respond(action, field, data) ==
  [op |-> "respond", action |-> action, slug |-> Undefined, field |-> field,
   resp |-> createJsonResponse(data)]
Call(op, action, slug, field) ==
  [op |-> op, action |-> action, slug |-> slug, field |-> field, resp |-> NoPayload]

\* faulty variant: any field that is given passes
FieldGiven(field) == Truthy(field)

FieldOk(field) == Truthy(field) /\ Includes(ValidFields, field)

\* faulty variant: the slug parameter is taken as it comes, with no default
doGetRouteNoDefault(e) ==
  IF ~e.parameter.hasParameter
    THEN Respond(Undefined, Undefined, ErrorObj("TypeError"))
  ELSE LET action == Or(e.parameter.action, "get")
           slug == e.parameter.slug
           field == e.parameter.field
       IN IF action = "get" THEN Call("readCounts_", action, slug, Undefined)
          ELSE IF action = "bump"
            THEN IF ~FieldOk(field)
                   THEN Respond(action, field,
                                ErrorObj("Invalid or missing field parameter"))
                   ELSE Call("bump_", action, slug, field)
            ELSE Respond(action, Undefined, ErrorObj("Unknown action"))

doGetRoute(e) ==
  IF ~e.parameter.hasParameter
    THEN Respond(Undefined, Undefined, ErrorObj("TypeError"))
  ELSE LET action == Or(e.parameter.action, "get")
           slug == Or(e.parameter.slug, "home")
           field == e.parameter.field
       IN IF action = "get" THEN Call("readCounts_", action, slug, Undefined)
          ELSE IF action = "bump"
            THEN IF ~FieldOk(field)
                   THEN Respond(action, field,
                                ErrorObj("Invalid or missing field parameter"))
                   ELSE Call("bump_", action, slug, field)
            ELSE Respond(action, Undefined, ErrorObj("Unknown action"))

\* faulty variant: a body JSON.parse rejects fails the request
parsePayloadAborts(e) ==
  CASE e.body.kind = "object" ->
         [isNull |-> FALSE, slug |-> e.body.slug, field |-> e.body.field]
    [] e.body.kind = "empty" ->
         [isNull |-> FALSE, slug |-> Undefined, field |-> Undefined]
    [] e.body.kind \in {"null", "malformed"} ->
         [isNull |-> TRUE, slug |-> Undefined, field |-> Undefined]
    [] OTHER ->
         [isNull |-> FALSE, slug |-> e.parameter.slug, field |-> e.parameter.field]

\* JSON.parse(e.postData.contents || '{}') with its catch
parsePayload(e) ==
  CASE e.body.kind = "object" ->
         [isNull |-> FALSE, slug |-> e.body.slug, field |-> e.body.field]
    [] e.body.kind = "empty" ->
         [isNull |-> FALSE, slug |-> Undefined, field |-> Undefined]
    [] e.body.kind = "null" ->
         [isNull |-> TRUE, slug |-> Undefined, field |-> Undefined]
    [] OTHER ->
         \* no postData, or a body JSON.parse rejects: payload = e.parameter || {}
         [isNull |-> FALSE, slug |-> e.parameter.slug, field |-> e.parameter.field]

\* faulty variant: doPost takes the slug from the query string only
doPostRouteQuerySlug(e) ==
  LET payload == parsePayload(e)
      typeError ==
        \/ payload.isNull
        \/ ~e.parameter.hasParameter /\ (~Truthy(payload.slug) \/ ~Truthy(payload.field))
      slug == Or(e.parameter.slug, "home")
      field == Or(payload.field, e.parameter.field)
  IN IF typeError THEN Respond(Undefined, Undefined, ErrorObj("TypeError"))
     ELSE IF ~(Truthy(field) /\ Includes(ValidFields, field))
       THEN Respond(Undefined, field, ErrorObj("Invalid or missing field"))
       ELSE Call("bump_", Undefined, slug, field)

\* faulty variant: doPost without its check of the field
doPostRouteUnchecked(e) ==
  LET payload == parsePayload(e)
      typeError ==
        \/ payload.isNull
        \/ ~e.parameter.hasParameter /\ (~Truthy(payload.slug) \/ ~Truthy(payload.field))
      slug == Or(Or(payload.slug, e.parameter.slug), "home")
      field == Or(payload.field, e.parameter.field)
  IN IF typeError THEN Respond(Undefined, Undefined, ErrorObj("TypeError"))
     ELSE Call("bump_", Undefined, slug, field)

doPostRoute(e) ==
  LET payload == parsePayload(e)
      \* payload.x || e.parameter.x reads e.parameter only when payload.x is falsy
      typeError ==
        \/ payload.isNull
        \/ ~e.parameter.hasParameter /\ (~Truthy(payload.slug) \/ ~Truthy(payload.field))
      slug == Or(Or(payload.slug, e.parameter.slug), "home")
      field == Or(payload.field, e.parameter.field)
  IN IF typeError THEN Respond(Undefined, Undefined, ErrorObj("TypeError"))
     ELSE IF ~FieldOk(field)
       THEN Respond(Undefined, field, ErrorObj("Invalid or missing field"))
       ELSE Call("bump_", Undefined, slug, field)

\* faulty variant: the row that was found is not returned
rowNeverFound(row) == FALSE

\* ensureRow_: `if (row) return row`
rowFound(row) == row # Null

\* faulty variant: the increment is left out
newValSame(currentVal) == currentVal

\* bump_: the value written back to the cell, currentVal + 1; on text (a
\* cell of a header row) + appends
newVal(currentVal) ==
  IF IsText(currentVal) THEN currentVal \o "1" ELSE currentVal + 1

\* getRange(row, col) with a column that is no number
BadColumn ==
  Thrown("Exception: The parameters don't match the method signature for SpreadsheetApp.Sheet.getRange")
\* insertSheet when another execution has made the sheet in between
SheetExists ==
  Thrown("Exception: A sheet with the name \"metrics\" already exists")

\* bump_: the check of the column, made after ensureRow_ has returned
bumpFieldValid(field) == colMap(field) # Null

\* ensureRow_ run with nothing interleaved: the sheet it leaves and the row
\* number it returns
ensureRow_(t, slug) ==
  LET sheet == getSheet_(t)
      row == findRowBySlug_(sheet, slug)
  IN IF rowFound(row) THEN [table |-> sheet, row |-> row]
     ELSE LET grown == appendRow(sheet, <<slug, 0, 0, 0>>)
          IN [table |-> grown, row |-> getLastRow(grown)]

\* bump_ run with nothing interleaved: the sheet it leaves and what it returns
\* or throws
bump_(t, slug, field) ==
  LET ensured == ensureRow_(t, slug)
      col == colMap(field)
  IN IF ~bumpFieldValid(field)
       THEN [table |-> ensured.table, result |-> Thrown("Error: Invalid field")]
     ELSE IF col = Inherited
       THEN [table |-> ensured.table, result |-> BadColumn]
       ELSE LET currentVal == OrZero(ensured.table[ensured.row][col])
                written == setValue(ensured.table, ensured.row, col, newVal(currentVal))
            IN [table |-> written, result |-> readCounts_(written, slug)]

VARIABLES
  exists,  \* the spreadsheet has a sheet named 'metrics'
  table,   \* the rows of the sheet 'metrics' (none while there is no sheet)
  req,     \* per client: the request it is running and where that request stands
  nreq,    \* number of requests started so far
  before,  \* history: the sheet when the last request that found no other
           \* request running was started
  solo,    \* history: no request has been started since while it was running
  started, \* history: number of bump_(slug, field) calls made, per slug and field
  lastRead \* history: the slug and the result of the first readCounts_ call made
           \* since a bump_ or resetSlug was last called, and how many calls of
           \* readCounts_ for that slug have returned since
vars == <<exists, table, req, nreq, before, solo, started, lastRead>>

NoRead == [slug |-> Undefined, resp |-> NoPayload, n |-> 0]

\* entry is the function the client called; action, slug, field, row, cur are
\* its locals and those of the function it is in (op); resp is what the client
\* gets.
Idle ==
  [pc |-> "idle", entry |-> "", op |-> "", action |-> Undefined, slug |-> Undefined,
   field |-> Undefined, row |-> Null, cur |-> 0, resp |-> NoPayload]

Init ==
  /\ exists \in BOOLEAN
  /\ table = << >>
  /\ req = [c \in Clients |-> Idle]
  /\ nreq = 0
  /\ before = << >>
  /\ solo = TRUE
  /\ started = [k \in Slugs \X ValidFields |-> 0]
  /\ lastRead = NoRead

AllIdle == \A c \in Clients : req[c].pc = "idle"
Running(c) == req[c].pc \notin {"idle", "done"}
\* A new request is taken once the answers that are ready have been handed
\* over, by c2 only while c1 is busy.
Free(c) ==
  /\ req[c].pc = "idle"
  /\ \A d \in Clients : req[d].pc # "done"
  /\ c = "c1" \/ Running("c1")

\* getSheet_ has returned: the call the function makes next
AfterSheet(op) ==
  CASE op = "readCounts_" -> "read_find"
    [] op = "bump_" -> "ensure_find"
    [] op = "resetSlug" -> "reset_find"
    [] op = "viewAllCounts" -> "view_values"

SheetReady == exists /\ getLastRow(table) # 0

Begin(c, entry, route, bound) ==
  /\ Free(c)
  /\ nreq < bound
  /\ nreq' = nreq + 1
  /\ IF \E d \in Clients : Running(d)
       THEN solo' = FALSE /\ before' = before
       ELSE solo' = TRUE /\ before' = table
  /\ req' = [req EXCEPT ![c] =
       [Idle EXCEPT
          !.pc = IF route.op = "respond" THEN "done"
                 ELSE IF SheetReady THEN AfterSheet(route.op)
                 ELSE "sheet_name",
          !.entry = entry, !.op = route.op, !.action = route.action,
          !.slug = route.slug, !.field = route.field, !.resp = route.resp]]
  /\ started' = IF route.op = "bump_" /\ route.field \in ValidFields
                  THEN [started EXCEPT ![<<route.slug, route.field>>] = @ + 1]
                  ELSE started
  /\ lastRead' = IF route.op \in {"bump_", "resetSlug"} THEN NoRead ELSE lastRead
  /\ UNCHANGED <<exists, table>>

\* the value or the exception reaches the caller: the handlers catch and wrap,
\* a function called directly hands it over as it is
Finish(r, result) ==
  [r EXCEPT !.pc = "done", !.row = Null, !.cur = 0,
            !.resp = IF r.entry \in {"doGet", "doPost"}
                       THEN createJsonResponse(
                              IF result.kind = "thrown"
                                THEN ErrorObj(result.error) ELSE result)
                       ELSE result]

\* ------------------------------------------------------------ entry points
DoGet(c, bound, events) ==
  \E e \in events : Begin(c, "doGet", doGetRoute(e), bound)

DoPost(c, bound, events) ==
  \E e \in events : Begin(c, "doPost", doPostRoute(e), bound)

CallReadCounts(c) ==
  \E s \in Slugs :
    Begin(c, "readCounts_", Call("readCounts_", Undefined, s, Undefined), MaxCalls)

CallResetSlug(c, bound, slugs) ==
  \E s \in slugs :
    Begin(c, "resetSlug", Call("resetSlug", Undefined, s, Undefined), bound)

CallBump(c) ==
  \E s \in Slugs, f \in DirectFields :
    Begin(c, "bump_", Call("bump_", Undefined, s, f), MaxCalls)

CallViewAllCounts(c, bound) ==
  Begin(c, "viewAllCounts",
        Call("viewAllCounts", Undefined, Undefined, Undefined), bound)

\* -------------------------------------------------------------- getSheet_
\* the first getSheet_ of a function, call by call; the later ones of the
\* same function find the sheet and its header
SheetByName(c) ==
  /\ req[c].pc = "sheet_name"
  /\ req' = [req EXCEPT ![c].pc = IF exists THEN "sheet_last" ELSE "sheet_insert"]
  /\ UNCHANGED <<exists, table, nreq, before, solo, started, lastRead>>

InsertSheet(c) ==
  /\ req[c].pc = "sheet_insert"
  /\ exists' = TRUE
  /\ req' = [req EXCEPT ![c] =
               IF exists THEN Finish(req[c], SheetExists)
               ELSE [req[c] EXCEPT !.pc = "sheet_last"]]
  /\ UNCHANGED <<table, nreq, before, solo, started, lastRead>>

SheetLastRow(c) ==
  /\ req[c].pc = "sheet_last"
  /\ req' = [req EXCEPT ![c].pc = IF getLastRow(table) = 0 THEN "sheet_header"
                                  ELSE AfterSheet(req[c].op)]
  /\ UNCHANGED <<exists, table, nreq, before, solo, started, lastRead>>

SheetHeader(c) ==
  /\ req[c].pc = "sheet_header"
  /\ table' = appendRow(table, Header)
  /\ req' = [req EXCEPT ![c].pc = AfterSheet(req[c].op)]
  /\ UNCHANGED <<exists, nreq, before, solo, started, lastRead>>

SheetSteps(c) ==
  SheetByName(c) \/ InsertSheet(c) \/ SheetLastRow(c) \/ SheetHeader(c)

\* ---------------------------------------------------------- viewAllCounts
ViewValues(c) ==
  /\ req[c].pc = "view_values"
  /\ req' = [req EXCEPT ![c] = Finish(req[c], NoPayload)]
  /\ UNCHANGED <<exists, table, nreq, before, solo, started, lastRead>>

\* ------------------------------------------------------------------ bump_
\* bump_ after ensureRow_ has returned `row`: look the column up, throw or go on
AfterEnsure(r, row) ==
  IF bumpFieldValid(r.field)
    THEN [r EXCEPT !.pc = "bump_read", !.row = row]
    ELSE Finish(r, Thrown("Error: Invalid field"))

EnsureFind(c) ==
  /\ req[c].pc = "ensure_find"
  /\ LET row == findRowBySlug_(table, req[c].slug)
     IN req' = [req EXCEPT ![c] =
                  IF rowFound(row) THEN AfterEnsure(req[c], row)
                  ELSE [req[c] EXCEPT !.pc = "ensure_append"]]
  /\ UNCHANGED <<exists, table, nreq, before, solo, started, lastRead>>

EnsureAppend(c) ==
  /\ req[c].pc = "ensure_append"
  /\ table' = appendRow(table, <<req[c].slug, 0, 0, 0>>)
  /\ req' = [req EXCEPT ![c].pc = "ensure_last"]
  /\ UNCHANGED <<exists, nreq, before, solo, started, lastRead>>

EnsureLast(c) ==
  /\ req[c].pc = "ensure_last"
  /\ req' = [req EXCEPT ![c] = AfterEnsure(req[c], getLastRow(table))]
  /\ UNCHANGED <<exists, table, nreq, before, solo, started, lastRead>>

BumpRead(c) ==
  /\ req[c].pc = "bump_read"
  /\ req' = [req EXCEPT ![c] =
               IF colMap(req[c].field) = Inherited THEN Finish(req[c], BadColumn)
               ELSE [req[c] EXCEPT
                       !.pc = "bump_write",
                       !.cur = OrZero(table[req[c].row][colMap(req[c].field)])]]
  /\ UNCHANGED <<exists, table, nreq, before, solo, started, lastRead>>

BumpWrite(c) ==
  /\ req[c].pc = "bump_write"
  /\ table' = setValue(table, req[c].row, colMap(req[c].field), newVal(req[c].cur))
  /\ req' = [req EXCEPT ![c].pc = "read_find", ![c].row = Null, ![c].cur = 0]
  /\ UNCHANGED <<exists, nreq, before, solo, started, lastRead>>

\* ------------------------------------------------------------ readCounts_
\* lastRead once client c's readCounts_ returns `result`: a call of
\* readCounts_ itself counts when no bump_ or resetSlug is running
Noted(c, result) ==
  IF req[c].op # "readCounts_"
       \/ \E d \in Clients : Running(d) /\ req[d].op \in {"bump_", "resetSlug"}
    THEN lastRead
    ELSE IF lastRead.slug = req[c].slug
      THEN [lastRead EXCEPT !.n = @ + 1]
      ELSE [slug |-> req[c].slug, resp |-> result, n |-> 1]

\* faulty variant: readCounts_ makes the row it misses
ReadFindEnsuring(c) ==
  /\ req[c].pc = "read_find"
  /\ LET row == findRowBySlug_(table, req[c].slug)
     IN /\ table' = IF row = Null THEN appendRow(table, <<req[c].slug, 0, 0, 0>>)
                    ELSE table
        /\ req' = [req EXCEPT ![c] =
                     IF row = Null THEN Finish(req[c], Counts(req[c].slug, 0, 0, 0))
                     ELSE [req[c] EXCEPT !.pc = "read_range", !.row = row]]
  /\ UNCHANGED <<exists, nreq, before, solo, started, lastRead>>

ReadFind(c) ==
  /\ req[c].pc = "read_find"
  /\ LET row == findRowBySlug_(table, req[c].slug)
     IN /\ req' = [req EXCEPT ![c] =
                     IF row = Null THEN Finish(req[c], Counts(req[c].slug, 0, 0, 0))
                     ELSE [req[c] EXCEPT !.pc = "read_range", !.row = row]]
        /\ lastRead' = IF row = Null
                         THEN Noted(c, Counts(req[c].slug, 0, 0, 0))
                         ELSE lastRead
  /\ UNCHANGED <<exists, table, nreq, before, solo, started>>

\* faulty variant: reading the counters also counts the read under infos
ReadRangeCounted(c) ==
  /\ req[c].pc = "read_range"
  /\ req' = [req EXCEPT ![c] = Finish(req[c], RowCounts(table[req[c].row]))]
  /\ lastRead' = Noted(c, RowCounts(table[req[c].row]))
  /\ table' = setValue(table, req[c].row, colMap("infos"),
                       newVal(OrZero(table[req[c].row][colMap("infos")])))
  /\ UNCHANGED <<exists, nreq, before, solo, started>>

ReadRange(c) ==
  /\ req[c].pc = "read_range"
  /\ req' = [req EXCEPT ![c] = Finish(req[c], RowCounts(table[req[c].row]))]
  /\ lastRead' = Noted(c, RowCounts(table[req[c].row]))
  /\ UNCHANGED <<exists, table, nreq, before, solo, started>>

\* -------------------------------------------------------------- resetSlug
ResetFind(c) ==
  /\ req[c].pc = "reset_find"
  /\ LET row == findRowBySlug_(table, req[c].slug)
     IN req' = [req EXCEPT ![c] =
                  IF rowFound(row) THEN [req[c] EXCEPT !.pc = "reset_write", !.row = row]
                  ELSE Finish(req[c], NoPayload)]
  /\ UNCHANGED <<exists, table, nreq, before, solo, started, lastRead>>

\* faulty variant: the row is deleted instead of being set to zero
ResetWriteDeletes(c) ==
  /\ req[c].pc = "reset_write"
  /\ table' = [i \in 1..(Len(table) - 1) |->
                 IF i < req[c].row THEN table[i] ELSE table[i + 1]]
  /\ req' = [req EXCEPT ![c] = Finish(req[c], NoPayload)]
  /\ UNCHANGED <<exists, nreq, before, solo, started, lastRead>>

ResetWrite(c) ==
  /\ req[c].pc = "reset_write"
  /\ table' = setValues(table, req[c].row, <<0, 0, 0>>)
  /\ req' = [req EXCEPT ![c] = Finish(req[c], NoPayload)]
  /\ UNCHANGED <<exists, nreq, before, solo, started, lastRead>>

ResetSteps(c) == ResetFind(c) \/ ResetWrite(c)

\* the client has its answer
Return(c) ==
  /\ req[c].pc = "done"
  /\ req' = [req EXCEPT ![c] = Idle]
  /\ UNCHANGED <<exists, table, nreq, before, solo, started, lastRead>>

BumpSteps(c) ==
  EnsureFind(c) \/ EnsureAppend(c) \/ EnsureLast(c) \/ BumpRead(c) \/ BumpWrite(c)
ReadSteps(c) == ReadFind(c) \/ ReadRange(c)

\* Requests arrive over HTTP and run concurrently; their fields are RaceFields.
Next ==
  \E c \in Clients :
    \/ DoGet(c, MaxRequests, WithFields(GetEvents(ParamSlugs), RaceFields))
    \/ DoPost(c, MaxRequests, WithFields(PostEvents(ParamSlugs), RaceFields))
    \/ SheetSteps(c) \/ BumpSteps(c) \/ ReadSteps(c) \/ Return(c)
Spec == Init /\ [][Next]_vars

\* The same, with every request for the slug "home" (named or by default).
NextRace ==
  \E c \in Clients :
    \/ DoGet(c, MaxRace, WithFields(GetEvents({Undefined, "home"}), RaceFields))
    \/ DoPost(c, MaxRace, WithFields(PostEvents({Undefined, "home"}), RaceFields))
    \/ SheetSteps(c) \/ BumpSteps(c) \/ ReadSteps(c) \/ Return(c)
SpecRace == Init /\ [][NextRace]_vars

\* One call at a time: a call starts only when no other is running.
NextSeq ==
  \E c \in Clients :
    \/ AllIdle /\ (DoGet(c, MaxCalls, GetEvents(ParamSlugs))
                     \/ DoPost(c, MaxCalls, PostEvents(ParamSlugs))
                     \/ CallReadCounts(c) \/ CallBump(c))
    \/ SheetSteps(c) \/ BumpSteps(c) \/ ReadSteps(c) \/ Return(c)
SpecSeq == Init /\ [][NextSeq]_vars

\* One call at a time, the operator's resetSlug among them.
NextMaint ==
  \E c \in Clients :
    \/ AllIdle /\ (DoGet(c, MaxCalls, GetEvents(ParamSlugs))
                     \/ DoPost(c, MaxCalls, PostEvents(ParamSlugs))
                     \/ CallReadCounts(c) \/ CallBump(c)
                     \/ CallResetSlug(c, MaxCalls, Slugs)
                     \/ CallViewAllCounts(c, MaxCalls))
    \/ SheetSteps(c) \/ BumpSteps(c) \/ ReadSteps(c) \/ ResetSteps(c)
    \/ ViewValues(c) \/ Return(c)
SpecMaint == Init /\ [][NextMaint]_vars

\* HTTP requests that name no slug at all, one at a time.
NextNoSlug ==
  \E c \in Clients :
    \/ AllIdle /\ (DoGet(c, MaxCalls, GetEvents({Undefined}))
                     \/ DoPost(c, MaxCalls, PostEvents({Undefined})))
    \/ SheetSteps(c) \/ BumpSteps(c) \/ ReadSteps(c) \/ Return(c)
SpecNoSlug == Init /\ [][NextNoSlug]_vars

\* POST requests whose body is not JSON, one at a time.
MalformedPosts == {e \in PostEvents(ParamSlugs) : e.body.kind = "malformed"}
NextMalformed ==
  \E c \in Clients :
    \/ AllIdle /\ DoPost(c, MaxCalls, MalformedPosts)
    \/ SheetSteps(c) \/ BumpSteps(c) \/ ReadSteps(c) \/ Return(c)
SpecMalformed == Init /\ [][NextMalformed]_vars

\* Overlapping HTTP requests and resetSlug calls, all for the slug "home".
NextRaceMaint ==
  \E c \in Clients :
    \/ DoGet(c, MaxRace, WithFields(GetEvents({Undefined, "home"}), RaceFields))
    \/ DoPost(c, MaxRace, WithFields(PostEvents({Undefined, "home"}), RaceFields))
    \/ CallResetSlug(c, MaxRace, {"home"}) \/ CallViewAllCounts(c, MaxRace)
    \/ SheetSteps(c) \/ BumpSteps(c) \/ ReadSteps(c) \/ ResetSteps(c)
    \/ ViewValues(c) \/ Return(c)
SpecRaceMaint == Init /\ [][NextRaceMaint]_vars

\* Overlapping HTTP requests and resetSlug calls on both slugs; the requests
\* that bump all bump likes.
LikesOnly(events) ==
  {e \in events : /\ e.parameter.hasParameter
                   /\ e.parameter.field \in {Undefined, "likes"}
                   /\ e.body.field \in {Undefined, "likes"}
                   /\ e.body.kind \in {"none", "object"}}
NextAll ==
  \E c \in Clients :
    \/ DoGet(c, MaxAll, LikesOnly(GetEvents(ParamSlugs)))
    \/ DoPost(c, MaxAll, LikesOnly(PostEvents(ParamSlugs)))
    \/ CallResetSlug(c, MaxAll, Slugs) \/ CallViewAllCounts(c, MaxAll)
    \/ SheetSteps(c) \/ BumpSteps(c) \/ ReadSteps(c) \/ ResetSteps(c)
    \/ ViewValues(c) \/ Return(c)
SpecAll == Init /\ [][NextAll]_vars

\* ------------------------------------------------------------ properties
\* row i holds counters: numbers, not the text of a header
HoldsCounts(t, i) == \A col \in 2..4 : ~IsText(t[i][col])
DataRows(t) == IF Len(t) = 0 THEN << >> ELSE SubSeq(t, 2, Len(t))
RowsOf(t, slug) == {i \in 2..Len(t) : StrictEq(String(t[i][1]), slug)}
Counter(p, f) ==
  CASE f = "likes" -> p.likes
    [] f = "dislikes" -> p.dislikes
    [] f = "infos" -> p.infos
\* the object a client reads out of the answer
Body(resp) == [resp EXCEPT !.mime = ""]
Done(c) == req[c].pc = "done"
DoneBump(c) == Done(c) /\ req[c].op = "bump_" /\ req[c].field \in ValidFields

\* C1: a bump(s, f) that runs with no other request interleaved leaves
\* readCounts(s).f one greater than it was, leaves the other two counters of s
\* as they were, and returns what readCounts(s) gives right after it.
C1_BumpAddsOne ==
  \A c \in Clients :
    DoneBump(c) /\ solo =>
      LET was == readCounts_(before, req[c].slug)
          now == readCounts_(table, req[c].slug)
      IN /\ \A f \in ValidFields :
              Counter(now, f) = Counter(was, f) + (IF f = req[c].field THEN 1 ELSE 0)
         /\ Body(req[c].resp) = now

\* a bump that ran alone has completed on a counter that was already positive,
\* in a sheet that held two rows for its slug
C1_Witness ==
  \E c \in Clients :
    /\ DoneBump(c) /\ solo
    /\ Counter(readCounts_(before, req[c].slug), req[c].field) >= 1
    /\ Cardinality(RowsOf(before, req[c].slug)) >= 2

\* C2: readCounts(s) of a slug that has no row returns {s, 0, 0, 0} and
\* leaves the data rows as they were; s still has no row afterwards.
C2_ReadUnknownSlug ==
  \A c \in Clients :
    Done(c) /\ req[c].op = "readCounts_" /\ findRowBySlug_(before, req[c].slug) = Null
      => /\ Body(req[c].resp) = Counts(req[c].slug, 0, 0, 0)
         /\ DataRows(table) = DataRows(before)
         /\ findRowBySlug_(table, req[c].slug) = Null

\* readCounts_ of a slug without a row has completed on a sheet that holds a
\* row of another slug
C2_Witness ==
  \E c \in Clients :
    /\ Done(c) /\ req[c].op = "readCounts_" /\ req[c].entry = "readCounts_"
    /\ findRowBySlug_(before, req[c].slug) = Null
    /\ Len(before) >= 2

\* C3: with calls made one at a time on a sheet that started empty,
\* readCounts(s).f is the number of bump(s, f) calls made, for each slug and
\* field, and every bump returns these numbers.
C3_CountsAreCalls ==
  /\ (\A c \in Clients : ~Running(c)) =>
       \A s \in Slugs, f \in ValidFields :
         Counter(readCounts_(table, s), f) = started[<<s, f>>]
  /\ \A c \in Clients :
       DoneBump(c) =>
         \A f \in ValidFields : Counter(req[c].resp, f) = started[<<req[c].slug, f>>]

\* bump("home", "likes") and bump("home", "dislikes") have been made and the
\* last one returned {home, 1, 1, 0}
C3_Witness ==
  \E c \in Clients :
    /\ DoneBump(c) /\ req[c].entry = "bump_"
    /\ Body(req[c].resp) = Counts("home", 1, 1, 0)
    /\ readCounts_(table, "home") = Counts("home", 1, 1, 0)

\* C4 (as claimed): bump(s, field) with a field that is none of likes,
\* dislikes, infos fails with InvalidField and leaves the sheet's data rows as
\* they were.
C4_InvalidFieldNoEffect ==
  \A c \in Clients :
    Done(c) /\ req[c].entry = "bump_" /\ req[c].field \notin ValidFields
      => /\ req[c].resp.kind = "thrown"
         /\ DataRows(table) = DataRows(before)

\* C5 (as claimed): under any interleaving of read and bump requests every
\* counter of every row of a slug is a non-negative integer and never
\* decreases from one state to the next.
C5_CountersNeverDecrease ==
  [][\A i \in 2..Len(table), col \in 2..4 :
       HoldsCounts(table, i) =>
         /\ table[i][col] \in Nat
         /\ table'[i][col] \in Nat
         /\ table'[i][col] >= table[i][col]]_vars

NoDuplicate(t) == \A s \in Slugs : Cardinality(RowsOf(t, s)) <= 1

\* C6: with calls made one at a time no slug ever has two rows: a row is
\* appended only by bump, for a slug that has no row.
C6_OneRowPerSlug ==
  [][/\ NoDuplicate(table')
     /\ Len(table) >= 1 /\ Len(table') > Len(table) =>
          \E c \in Clients :
            /\ req[c].op = "bump_"
            /\ RowsOf(table, req[c].slug) = {}
            /\ table' = Append(table, <<req[c].slug, 0, 0, 0>>)]_vars

\* both slugs have their row and a slug that had its row has been bumped again
C6_Witness ==
  /\ Len(table) = 3
  /\ \E s \in Slugs : started[<<s, "likes">>] + started[<<s, "infos">>] >= 2
  /\ \E c \in Clients : DoneBump(c)

\* C7: two rows for one slug come from overlapping requests only (a request
\* that runs alone on a sheet without duplicates leaves none), and overlapping
\* bumps of a slug without a row do produce them.
C7_DuplicatesNeedOverlap == solo /\ NoDuplicate(before) => NoDuplicate(table)

\* two overlapping bumps of a slug that had no row have both appended a row
C7_Witness ==
  \E s \in Slugs :
    /\ RowsOf(before, s) = {}
    /\ Cardinality(RowsOf(table, s)) = 2
    /\ \A c \in Clients : req[c].op = "bump_" /\ req[c].slug = s

\* C8: when two overlapping bump(s, f) requests on an existing row have both
\* completed, the counter is at least 1 above its value before either
\* started and at most the number of bumps made; 1 above does happen.
C8_OverlapKeepsOneIncrement ==
  \A c, d \in Clients :
    /\ c # d /\ DoneBump(c) /\ DoneBump(d)
    /\ req[c].slug = req[d].slug /\ req[c].field = req[d].field
    /\ RowsOf(before, req[c].slug) # {}
    => LET was == Counter(readCounts_(before, req[c].slug), req[c].field)
           now == Counter(readCounts_(table, req[c].slug), req[c].field)
       IN was + 1 <= now /\ now <= started[<<req[c].slug, req[c].field>>]

\* both bumps of the same counter of an existing row are done and the counter
\* has gone up by 1 only
C8_Witness ==
  \E s \in Slugs, f \in ValidFields :
    /\ \A c \in Clients : DoneBump(c) /\ req[c].slug = s /\ req[c].field = f
    /\ RowsOf(before, s) # {}
    /\ Counter(readCounts_(table, s), f) = Counter(readCounts_(before, s), f) + 1

IsMutate(r) == r.entry = "doPost" \/ (r.entry = "doGet" /\ r.action = "bump")

\* C9: on doGet with action=bump and on doPost a missing field, or one that
\* is none of likes, dislikes, infos, is answered with an {error: ...} object
\* and bump_ is not called.
C9_BadFieldRejected ==
  \A c \in Clients :
    req[c].pc # "idle" /\ IsMutate(req[c]) /\ req[c].field \notin ValidFields
      => /\ Done(c)
         /\ req[c].op = "respond"
         /\ req[c].resp.kind = "error"
         /\ req[c].resp.mime = "application/json"

\* doGet with action=bump and a field that is no counter has answered, while
\* a bump is running
C9_Witness ==
  \E c, d \in Clients :
    /\ Done(c) /\ req[c].entry = "doGet" /\ req[c].action = "bump"
    /\ req[c].field = "shares" /\ req[c].resp.kind = "error"
    /\ Running(d) /\ req[d].op = "bump_"

\* C10: a request to doGet or doPost that answers with an {error: ...}
\* payload has left the data rows as they were.
C10_ErrorLeavesRows ==
  \A c \in Clients :
    Done(c) /\ req[c].entry \in {"doGet", "doPost"} /\ req[c].resp.kind = "error"
      => DataRows(table) = DataRows(before)

\* doPost has refused a field on a sheet that holds data rows
C10_Witness ==
  \E c \in Clients :
    /\ Done(c) /\ req[c].entry = "doPost" /\ req[c].resp.kind = "error"
    /\ req[c].field = "shares"
    /\ Len(table) >= 3

\* the GET and POST requests that ask for bump(s, f)
GetBump(s, f) ==
  [parameter |-> [hasParameter |-> TRUE, action |-> "bump", slug |-> s, field |-> f],
   body |-> NoBody]
PostBump(s, f) ==
  [parameter |-> [hasParameter |-> TRUE, action |-> Undefined, slug |-> Undefined,
                  field |-> Undefined],
   body |-> [kind |-> "object", slug |-> s, field |-> f]]
\* two handlers go the same way: same call or same answer
SameRoute(a, b) ==
  a.op = b.op /\ a.slug = b.slug /\ a.field = b.field /\ a.resp = b.resp

\* C11: GET ?action=bump&slug=s&field=f and POST {slug: s, field: f} with a
\* valid field call bump_(s, f) alike, and each, run from the same sheet,
\* leaves the sheet and gives the answer that bump_(s, f) gives there.
C11_GetAndPostBumpAgree ==
  /\ \A s \in Slugs, f \in ValidFields :
       /\ SameRoute(doGetRoute(GetBump(s, f)), doPostRoute(PostBump(s, f)))
       /\ doPostRoute(PostBump(s, f)).op = "bump_"
       /\ doPostRoute(PostBump(s, f)).slug = s
       /\ doPostRoute(PostBump(s, f)).field = f
  /\ \A c \in Clients :
       DoneBump(c) /\ req[c].entry \in {"doGet", "doPost"} =>
         /\ table = bump_(before, req[c].slug, req[c].field).table
         /\ req[c].resp =
              createJsonResponse(bump_(before, req[c].slug, req[c].field).result)

\* a POST bump of "test" has completed on a sheet where "test" had counts
C11_Witness ==
  \E c \in Clients :
    /\ DoneBump(c) /\ req[c].entry = "doPost" /\ req[c].slug = "test"
    /\ RowsOf(before, "test") # {} /\ Len(before) = 3
    /\ req[c].resp.likes + req[c].resp.dislikes + req[c].resp.infos >= 2

\* C12: readCounts(s) called again with no bump or reset since the first call
\* returns what the first call returned, and each call leaves the data rows
\* as they were.
C12_ReadIsIdempotent ==
  \A c \in Clients :
    Done(c) /\ req[c].op = "readCounts_" =>
      /\ lastRead.slug = req[c].slug => Body(req[c].resp) = lastRead.resp
      /\ solo => DataRows(table) = DataRows(before)

\* a third readCounts_ in a row of a slug with counts has returned
C12_Witness ==
  \E c \in Clients :
    /\ Done(c) /\ req[c].op = "readCounts_"
    /\ lastRead.slug = req[c].slug /\ lastRead.n >= 3
    /\ req[c].resp.likes >= 1

\* C13: resetSlug(s) sets the three counters of the row of s to 0 when s has
\* a row, changes nothing and creates no row when s has none, and in both
\* cases leaves the rows of every other slug as they were.
C13_ResetZeroesOwnRow ==
  \A c \in Clients :
    Done(c) /\ req[c].op = "resetSlug" /\ solo =>
      LET s == req[c].slug
      IN /\ Len(DataRows(table)) = Len(DataRows(before))
         /\ RowsOf(table, s) = RowsOf(before, s)
         /\ \A i \in 2..Len(before) :
              table[i] = IF i = findRowBySlug_(before, s)
                           THEN <<s, 0, 0, 0>> ELSE before[i]
         /\ RowsOf(before, s) = {} => DataRows(table) = DataRows(before)

\* resetSlug has cleared a row that held likes and infos, next to the row of
\* another slug that holds a count
C13_Witness ==
  \E c \in Clients :
    /\ Done(c) /\ req[c].op = "resetSlug" /\ solo
    /\ \E i \in RowsOf(before, req[c].slug) :
         before[i][2] >= 1 /\ before[i][4] >= 1 /\ table[i] = <<req[c].slug, 0, 0, 0>>
    /\ \E j \in (2..Len(table)) \ RowsOf(table, req[c].slug) :
         table[j][2] + table[j][3] + table[j][4] >= 1

\* the event e with the slug s put where the handler looks for it: the query
\* string, or the JSON object of the body when the body parses to one
WithSlug(e, s) ==
  IF e.body.kind \in {"object", "empty"}
    THEN [e EXCEPT !.body = [kind |-> "object", slug |-> s, field |-> e.body.field]]
  ELSE IF e.body.kind = "null" THEN e
    ELSE [e EXCEPT !.parameter.slug = s]

\* an event the web app runtime builds for a request: e.parameter is an
\* object, empty when the URL has no query string
FromHttp(e) == e.parameter.hasParameter

\* C14: a request that names no slug is handled as the same request with the
\* slug "home": doGet (read and bump) and doPost decode both to the same call
\* or the same immediate answer, and the call that runs is the call for
\* "home", with its answer and its effect on the sheet.
C14_AbsentSlugIsHome ==
  /\ \A e \in GetEvents({Undefined}) :
       FromHttp(e) => doGetRoute(e) = doGetRoute(WithSlug(e, "home"))
  /\ \A e \in PostEvents({Undefined}) :
       FromHttp(e) => doPostRoute(e) = doPostRoute(WithSlug(e, "home"))
  /\ \A c \in Clients :
       Done(c) /\ req[c].op # "respond" =>
         /\ req[c].slug = "home"
         /\ req[c].op = "readCounts_" =>
              /\ table = getSheet_(before)
              /\ req[c].resp = createJsonResponse(readCounts_(getSheet_(before), "home"))
         /\ req[c].op = "bump_" =>
              /\ table = bump_(before, "home", req[c].field).table
              /\ req[c].resp = createJsonResponse(bump_(before, "home", req[c].field).result)

\* a GET bump without a slug has raised a counter of the row of "home" to 2
\* or more
C14_Witness ==
  \E c \in Clients :
    /\ Done(c) /\ req[c].entry = "doGet" /\ req[c].op = "bump_"
    /\ RowsOf(table, "home") # {}
    /\ Counter(req[c].resp, req[c].field) >= 2

\* C15: a POST whose body is not JSON is answered from the query string: with
\* slug=s and a valid field=f it decodes to the bump_ call of the well-formed
\* body {slug: s, field: f} and runs as that call, and without a valid query
\* field it is answered with an error object and the sheet is left alone.
C15_MalformedBodyUsesQuery ==
  /\ \A e \in MalformedPosts :
       /\ FromHttp(e) /\ e.parameter.slug \in Slugs /\ e.parameter.field \in ValidFields
            => doPostRoute(e) = doPostRoute(PostBump(e.parameter.slug, e.parameter.field))
       /\ ~Truthy(e.parameter.field)
            => doPostRoute(e).op = "respond" /\ doPostRoute(e).resp.kind = "error"
  /\ \A c \in Clients :
       Done(c) =>
         /\ req[c].op \in {"bump_", "respond"}
         /\ req[c].op = "bump_" =>
              /\ req[c].field \in ValidFields
              /\ table = bump_(before, req[c].slug, req[c].field).table
              /\ req[c].resp = createJsonResponse(bump_(before, req[c].slug, req[c].field).result)
         /\ req[c].op = "respond" =>
              req[c].resp.kind = "error" /\ table = before

\* a POST with a body that is not JSON and the query slug=test has raised a
\* counter of the row of "test" to 2 or more
C15_Witness ==
  \E c \in Clients :
    /\ Done(c) /\ req[c].entry = "doPost" /\ req[c].op = "bump_" /\ req[c].slug = "test"
    /\ Counter(req[c].resp, req[c].field) >= 2
    /\ \E i \in RowsOf(table, "test") : table[i][colMap(req[c].field)] >= 2

\* C16: under any interleaving, the row a bump(s, f) request reads and writes
\* its counter in is a row whose slug cell is s; in particular the last row
\* that ensureRow_ takes as its handle after appending is the row of s.
C16_BumpStaysInOwnRow ==
  \A c \in Clients :
    req[c].pc \in {"bump_read", "bump_write"} =>
      table[req[c].row][1] = req[c].slug

\* the lowest row number among the rows of a slug that has rows
FirstRowOf(t, slug) == CHOOSE i \in RowsOf(t, slug) : \A j \in RowsOf(t, slug) : i <= j

\* C17: on a sheet with several rows of the slug s, the row findRowBySlug_
\* gives is the one with the lowest number; readCounts_ answers with that
\* row's counters, bump_ and resetSlug write to that row only, and every
\* later duplicate stays as it was.
C17_FirstDuplicateWins ==
  \A c \in Clients :
    Done(c) /\ solo /\ req[c].op # "respond"
            /\ Cardinality(RowsOf(before, req[c].slug)) >= 2 =>
      LET s == req[c].slug
          first == FirstRowOf(before, s)
          col == colMap(req[c].field)
      IN /\ findRowBySlug_(before, s) = first
         /\ Len(table) = Len(before)
         /\ \A i \in 1..Len(before) : i # first => table[i] = before[i]
         /\ req[c].op = "readCounts_" =>
              table[first] = before[first] /\ Body(req[c].resp) = RowCounts(before[first])
         /\ req[c].op = "bump_" =>
              /\ table[first] = [before[first] EXCEPT ![col] = @ + 1]
              /\ Body(req[c].resp) = RowCounts(table[first])
         /\ req[c].op = "resetSlug" => table[first] = <<s, 0, 0, 0>>

\* resetSlug has run on a sheet with two rows of the slug, and the second row
\* still holds a count
C17_Witness ==
  \E c \in Clients :
    /\ Done(c) /\ solo /\ req[c].op = "resetSlug"
    /\ Cardinality(RowsOf(before, req[c].slug)) >= 2
    /\ \E i \in RowsOf(table, req[c].slug) :
         i # FirstRowOf(table, req[c].slug) /\ table[i][2] + table[i][3] + table[i][4] >= 1

\* C18: with no resetSlug call and under any interleaving, the counter f of
\* every row with slug s is at most the number of bump(s, f) requests
\* started so far.
C18_NoMoreThanRequested ==
  \A i \in 2..Len(table) : \A f \in ValidFields :
    HoldsCounts(table, i) => table[i][colMap(f)] <= started[<<table[i][1], f>>]

\* the row a request holds is a data row of the sheet, and a row that
\* findRowBySlug_ gave to readCounts_ or resetSlug is still a row of the slug
RowHandlesValid ==
  \A c \in Clients :
    req[c].row # Null =>
      /\ req[c].row \in 2..Len(table)
      /\ req[c].pc \in {"read_range", "reset_write"} => table[req[c].row][1] = req[c].slug

\* a step keeps every row at its number with its slug cell
RowsKept ==
  /\ Len(table') >= Len(table)
  /\ \A i \in 1..Len(table) : table'[i][1] = table[i][1]

\* C19: no step of readCounts_, bump_, resetSlug, doGet or doPost deletes or
\* moves a row or rewrites a slug cell: the number of rows never decreases,
\* every row keeps its number and its slug, and the row number a request got
\* from findRowBySlug_ names the same row until the request ends.
C19_RowsStayInPlace == [](RowHandlesValid) /\ [][RowsKept]_vars

\* a resetSlug holds the row it found while the sheet has grown by the row of
\* another slug since the request started
C19_Witness ==
  \E c \in Clients :
    /\ req[c].pc = "reset_write" /\ ~solo
    /\ Len(table) > req[c].row
    /\ table[Len(table)][1] # req[c].slug

====
